---- MODULE Spec2Model ----
(***************************************************************************)
(* Model of the exam-sheet OMR backend (cuonglevant/BE): the balanced-grid *)
(* extractors (Part I, II, III), the exam-code reader and the grader        *)
(* score_answers.                                                           *)
(*                                                                          *)
(* Numbers.  Scores returned by score_answers are floats rounded to two     *)
(* decimals; the model keeps them as integers in hundredths (10.0 = 1000).  *)
(* Part III values are kept in thousandths (-1.5 = -1500).  Filled ratios   *)
(* are kept in hundredths (0.05 = 5), Part I cell scores in tenths          *)
(* (3.0 = 30).                                                              *)
(***************************************************************************)
EXTENDS Integers, Sequences, FiniteSets, TLC

VARIABLES
    sa_pc,      \* position inside one call of score_answers
    given,      \* what is known of the arguments of that call (history)
    scores,     \* the dict score_answers builds and returns, in hundredths
    pc,         \* position of the grading session
    ec,         \* exam-code upload: the image and what process_exam_code returned
    session,    \* the session entry: its exam_code field
    p1,         \* process_part1: image, loop state, returned answers
    p2,         \* process_part2: image, loop state, returned answers
    p3,         \* process_part3: image, loop state, returned answers
    scanned_answers,  \* what scan_all_answers returns
    correct_ans,      \* the answer key the grade request resolved
    status,     \* HTTP status of the grade request, 0 while it runs
    args,       \* one part of a score_answers call: the two lists and the part
    use_redis,  \* main.USE_REDIS
    scan_sessions,  \* the session store (scan_sessions or Redis) for one session id
    reqs,       \* the HTTP requests being served: kind, position, locals, status
    exams,      \* the exam records ExamDbService.create_exam has inserted
    store,      \* the correctans collection: exam code -> answers (0: no document)
    cache,      \* the lru_cache of get_cached_correct_answers
    disk        \* the files the program has written and not removed

(***************************************************************************)
(* Bounds of the model.                                                     *)
(***************************************************************************)
\* longest list handed to score_answers for one part
MaxLen == 2
\* question numbers used in the lists handed to score_answers: 1..MaxQ
MaxQ == 2
\* most regions detect_regions finds in a Part I, Part II, Part III image
MaxP1Found == 5
MaxP2Found == 5
MaxP3Found == 9
\* requests served concurrently
MaxReq == 3
\* answer-key writes (create, update, delete) in one behaviour
MaxKeyOps == 2
\* longest list of one part when a single part is scored
MaxPartLen == 2
\* largest width and height, in pixels, of a rectified tile handed to a grid
\* builder
MaxTile == 120

(***************************************************************************)
(* The variables of the HTTP layer and of a single part's scoring, and the  *)
(* values they hold while the model looks at something else.                *)
(***************************************************************************)
api_vars == <<args, use_redis, scan_sessions, reqs, exams, store, cache, disk>>

NoArgs == [part |-> 0, scanned |-> <<>>, correct |-> <<>>]

\* a session id that set_session_data has not been called for
NoSession == [exists |-> FALSE, has_exam_code |-> FALSE, exam_code |-> ""]

\* a request slot no request has arrived in
NoRequest ==
    [kind |-> "none", pc |-> "none", status |-> 0,
     resolved |-> "",
     scanned |-> FALSE, created_exam |-> FALSE, deleted_session |-> FALSE,
     seen |-> "", after_grade |-> FALSE]

HttpIdle ==
    /\ use_redis = FALSE
    /\ scan_sessions = [started |-> FALSE, data |-> NoSession, code_uploaded |-> FALSE]
    /\ reqs = [r \in 1..MaxReq |-> NoRequest]
    /\ exams = {}
    /\ store = [answers |-> 0, writes |-> 0]
    /\ cache = [cached |-> FALSE, value |-> 0]
    /\ disk = {}

ApiIdle == args = NoArgs /\ HttpIdle

(***************************************************************************)
(* Generic helpers.                                                         *)
(***************************************************************************)
Abs(x) == IF x < 0 THEN -x ELSE x

Min(a, b) == IF a < b THEN a ELSE b

SeqsUpTo(S, n) == UNION {[1..k -> S] : k \in 0..n}

\* round(n/d) to the nearest integer, ties to even: Python's round() on the
\* quotient n/d, for n >= 0 and d > 0.
RoundHalfEven(n, d) ==
    LET q == n \div d
        r == n % d
    IN  IF 2 * r < d THEN q
        ELSE IF 2 * r > d THEN q + 1
        ELSE IF q % 2 = 0 THEN q ELSE q + 1

\* round((count / total) * 10, 2), in hundredths
Round2Score(count, total) == RoundHalfEven(1000 * count, total)

\* abs(x - y) >= 0.05 for two filled ratios x = a/100 and y = b/100, as
\* IEEE doubles compute it.  A filled ratio is pixels / size, the correctly
\* rounded double of a/100; the difference of two such doubles that are
\* 0.05 apart is 0.05 or the double just below 0.05 (0.15 - 0.10 gives
\* 0.04999999999999999).  short_of_five lists the lower ratios a for which
\* (a + 5)/100 - a/100 falls below 0.05; a distance of 0.04 or of 0.06 is
\* never rounded across 0.05.
DiffAtLeast005(a, b) ==
    LET short_of_five ==
            {1, 4, 7, 10, 13, 14, 16, 17, 19, 20, 24, 25, 26, 27, 28, 30, 31,
             32, 33, 34, 36, 37, 38, 39, 40, 42, 43, 44, 45, 46, 52, 53, 54,
             55, 56, 64, 65, 66, 67, 68, 77, 78, 79, 80, 81, 89, 90, 91, 92, 93}
    IN  \/ Abs(a - b) > 5
        \/ Abs(a - b) = 5 /\ Min(a, b) \notin short_of_five

(***************************************************************************)
(* score_answers (services/Grade/create_ans.py).                            *)
(* A part is a list of entries [q, a]; dict(list) keeps the LAST entry of   *)
(* each key.                                                                *)
(***************************************************************************)
\* q in dict(items)
DictHas(items, q) == \E i \in 1..Len(items) : items[i].q = q

\* dict(items)[q]: the value of the last entry whose key is q
DictGet(items, q) ==
    LET last == CHOOSE i \in 1..Len(items) :
                    /\ items[i].q = q
                    /\ \A j \in (i + 1)..Len(items) : items[j].q # q
    IN  items[last].a

\* set(dict(items).keys())
DictKeys(items) == {items[i].q : i \in 1..Len(items)}

\* Part I, lines 32-50: every scanned entry whose letter equals the key's
\* letter counts; the divisor is the LENGTH of the key list.
ScoreP1_FixedDivisor(p1_scanned, p1_correct) ==
    IF Len(p1_scanned) > 0 /\ Len(p1_correct) > 0
    THEN LET correct_count == Cardinality({i \in 1..Len(p1_scanned) :
                                  /\ DictHas(p1_correct, p1_scanned[i].q)
                                  /\ p1_scanned[i].a = DictGet(p1_correct, p1_scanned[i].q)})
         IN  Round2Score(correct_count, 40)
    ELSE 0

ScoreP1(p1_scanned, p1_correct) ==
    IF Len(p1_scanned) > 0 /\ Len(p1_correct) > 0
    THEN LET total_questions == Len(p1_correct)
             correct_count == Cardinality({i \in 1..Len(p1_scanned) :
                                  /\ DictHas(p1_correct, p1_scanned[i].q)
                                  /\ p1_scanned[i].a = DictGet(p1_correct, p1_scanned[i].q)})
         IN  Round2Score(correct_count, total_questions)
    ELSE 0

\* Part II, lines 53-85, list format: both lists become dicts (normalize_p2);
\* a key of the answer key counts when scanned_flat.get(k) == correct_flat.get(k),
\* and a key missing from the scanned dict gives None, which equals no boolean.
ScoreP2_MissingIsFalse(p2_scanned, p2_correct) ==
    IF Len(p2_correct) > 0
    THEN LET keys == DictKeys(p2_correct)
             correct_count == Cardinality({k \in keys :
                                  (IF DictHas(p2_scanned, k) THEN DictGet(p2_scanned, k) ELSE FALSE)
                                      = DictGet(p2_correct, k)})
         IN  Round2Score(correct_count, Cardinality(keys))
    ELSE 0

ScoreP2(p2_scanned, p2_correct) ==
    IF Len(p2_scanned) > 0 /\ Len(p2_correct) > 0
    THEN LET keys == DictKeys(p2_correct)
             total_questions == Cardinality(keys)
             correct_count == Cardinality({k \in keys :
                                  /\ DictHas(p2_scanned, k)
                                  /\ DictGet(p2_scanned, k) = DictGet(p2_correct, k)})
         IN  IF total_questions > 0 THEN Round2Score(correct_count, total_questions) ELSE 0
    ELSE 0

\* Part III, lines 88-125, numeric values: a scanned entry counts when its
\* value is within 0.01 of the key's value; the divisor is the LENGTH of the
\* key list.
ScoreP3_FixedDivisor(p3_scanned, p3_correct) ==
    IF Len(p3_scanned) > 0 /\ Len(p3_correct) > 0
    THEN LET correct_count == Cardinality({i \in 1..Len(p3_scanned) :
                                  /\ DictHas(p3_correct, p3_scanned[i].q)
                                  /\ Abs(p3_scanned[i].a - DictGet(p3_correct, p3_scanned[i].q)) < 10})
         IN  Round2Score(correct_count, 8)
    ELSE 0

ScoreP3(p3_scanned, p3_correct) ==
    IF Len(p3_scanned) > 0 /\ Len(p3_correct) > 0
    THEN LET total_questions == Len(p3_correct)
             correct_count == Cardinality({i \in 1..Len(p3_scanned) :
                                  /\ DictHas(p3_correct, p3_scanned[i].q)
                                  /\ Abs(p3_scanned[i].a - DictGet(p3_correct, p3_scanned[i].q)) < 10})
         IN  Round2Score(correct_count, total_questions)
    ELSE 0

\* lines 127-129: round((p1 + p2 + p3) / 3, 2)
TotalScore_Half(s1, s2, s3) == RoundHalfEven(s1 + s2 + s3, 2)

TotalScore(s1, s2, s3) == RoundHalfEven(s1 + s2 + s3, 3)

(***************************************************************************)
(* Part I: BalancedGridOMR (services/Process/balanced_grid_omr.py).         *)
(*                                                                          *)
(* A Part I image is described by what the detector and the cell scorer     *)
(* make of it: whether cv2.imread decodes it, how many regions              *)
(* detect_regions returns, and for every region and row the number of       *)
(* cells extract_cells produced and the score (lines 288-322) of each of     *)
(* the four cells, in tenths.                                               *)
(***************************************************************************)
Letters == <<"A", "B", "C", "D">>

\* chr(ord('A') + idx)
Letter(idx) == Letters[idx + 1]

\* scores.index(max(scores)): the first index (from 0) holding the maximum
MaxOf(cs) == CHOOSE m \in {cs[i] : i \in 1..Len(cs)} :
                     \A i \in 1..Len(cs) : cs[i] <= m

IndexOfMax_Last(cs) == (CHOOSE i \in 1..Len(cs) :
                          /\ cs[i] = MaxOf(cs)
                          /\ \A j \in (i + 1)..Len(cs) : cs[j] # MaxOf(cs)) - 1

IndexOfMax(cs) == (CHOOSE i \in 1..Len(cs) :
                          /\ cs[i] = MaxOf(cs)
                          /\ \A j \in 1..(i - 1) : cs[j] # MaxOf(cs)) - 1

\* detect_answers, lines 279-344, from row row_num on: a row with four cells
\* whose best score reaches 3.0 gives an answer, every other row gives nothing.
RECURSIVE DetectAnswersFrom(_, _)
DetectAnswersFrom(rows, row_num) ==
    IF row_num >= Len(rows) THEN <<>>
    ELSE LET row == rows[row_num + 1]
             max_score == MaxOf(row.scores)
             best_idx == IndexOfMax(row.scores)
             rest == DetectAnswersFrom(rows, row_num + 1)
         IN  IF row.cells = 4 /\ max_score >= 30
             THEN <<[question |-> row_num + 1,
                     answer |-> Letter(best_idx),
                     raw_column_index |-> best_idx,
                     confidence |-> max_score,
                     original_detected |-> Letter(best_idx),
                     column_corrected |-> FALSE]>> \o rest
             ELSE rest

\* detect_answers, lines 252-344: no cells, no answers
DetectAnswers(rows) ==
    IF \A k \in 1..Len(rows) : rows[k].cells = 0 THEN <<>>
    ELSE DetectAnswersFrom(rows, 0)

\* apply_column_mapping, lines 346-372.  The corrected entry of the code
\* drops raw_column_index; the model keeps it so that the raw index of an
\* emitted letter stays readable.  An entry of regions 0 and 1 carries no
\* original_detected and no column_corrected key: the model writes the raw
\* letter and FALSE there.
ApplyColumnMapping_OnlyLastRegion(answers, region_idx) ==
    IF region_idx \in {0, 1, 2} THEN answers
    ELSE [i \in 1..Len(answers) |->
            [question |-> answers[i].question,
             answer |-> Letter((answers[i].raw_column_index - 2) % 4),
             raw_column_index |-> answers[i].raw_column_index,
             confidence |-> answers[i].confidence,
             original_detected |-> answers[i].answer,
             column_corrected |-> TRUE]]

ApplyColumnMapping(answers, region_idx) ==
    IF region_idx \in {0, 1} THEN answers
    ELSE [i \in 1..Len(answers) |->
            [question |-> answers[i].question,
             answer |-> Letter((answers[i].raw_column_index - 2) % 4),
             raw_column_index |-> answers[i].raw_column_index,
             confidence |-> answers[i].confidence,
             original_detected |-> answers[i].answer,
             column_corrected |-> TRUE]]

\* process_region, lines 374-413, on a non-empty region image
ProcessRegionP1(rows, region_idx) ==
    ApplyColumnMapping(DetectAnswers(rows), region_idx)

\* list.sort(key=lambda x: x['question']): stable insertion sort
RECURSIVE InsertByQuestion(_, _)
InsertByQuestion(sorted, e) ==
    IF sorted = <<>> THEN <<e>>
    ELSE IF Head(sorted).question <= e.question
         THEN <<Head(sorted)>> \o InsertByQuestion(Tail(sorted), e)
         ELSE <<e>> \o sorted

RECURSIVE SortByQuestion(_)
SortByQuestion(answers) ==
    IF answers = <<>> THEN <<>>
    ELSE InsertByQuestion(SortByQuestion(SubSeq(answers, 1, Len(answers) - 1)),
                          answers[Len(answers)])

\* answer['question'] += question_offset, lines 434-436
ShiftQuestions(answers, question_offset) ==
    [i \in 1..Len(answers) |->
        [answers[i] EXCEPT !.question = answers[i].question + question_offset]]

(***************************************************************************)
(* Part II: BalancedGridP2 (services/Process/balanced_grid_p2.py).          *)
(*                                                                          *)
(* A region holds two questions; each (question, option) has a Dung (True)  *)
(* cell t and a Sai (False) cell f.  A cell is [present, filled_ratio,      *)
(* mean]: present says whether extract_cells produced it (lines 298-302),   *)
(* filled_ratio is in hundredths, mean is the grey level 0..255.            *)
(***************************************************************************)
Options == <<"a", "b", "c", "d">>
OptionSet == {"a", "b", "c", "d"}

\* question_options, lines 368-388: the options of question q_num that have
\* at least one cell, and the questions that have at least one option
OptionsSeen(region, q_num) ==
    {o \in OptionSet : region[q_num][o].t.present \/ region[q_num][o].f.present}

QuestionsSeen(region) == {q_num \in DOMAIN region : OptionsSeen(region, q_num) # {}}

\* lines 401-434: the paired comparison of one option, both cells present
CompareCells(true_cell, false_cell) ==
    IF DiffAtLeast005(true_cell.filled_ratio, false_cell.filled_ratio)
    THEN true_cell.filled_ratio > false_cell.filled_ratio
    ELSE true_cell.mean < false_cell.mean

\* lines 394-440: the option map of one question; an option keeps its
\* initial False unless both of its cells are present
OptionAnswers_OnlyCompared(region, q_num) ==
    [o \in {x \in OptionsSeen(region, q_num) :
                region[q_num][x].t.present /\ region[q_num][x].f.present} |->
        CompareCells(region[q_num][o].t, region[q_num][o].f)]

OptionAnswers(region, q_num) ==
    [o \in OptionSet |->
        IF /\ o \in OptionsSeen(region, q_num)
           /\ region[q_num][o].t.present
           /\ region[q_num][o].f.present
        THEN CompareCells(region[q_num][o].t, region[q_num][o].f)
        ELSE FALSE]

\* detect_p2_answers, lines 355-447: one entry per question seen, in
\* ascending question order
RECURSIVE DetectP2From(_, _)
DetectP2From(region, q_num) ==
    IF q_num > 2 THEN <<>>
    ELSE IF q_num \in QuestionsSeen(region)
         THEN <<[question |-> q_num, answers |-> OptionAnswers(region, q_num)]>>
                  \o DetectP2From(region, q_num + 1)
         ELSE DetectP2From(region, q_num + 1)

DetectP2Answers(region) == DetectP2From(region, 1)

\* process_region, lines 449-492, on a non-empty region image
ProcessRegionP2(region, question_offset) ==
    ShiftQuestions(DetectP2Answers(region), question_offset)

\* f"q{int(q)}_{opt}", create_ans.py line 179
P2Key(q, opt) == "q" \o ToString(q) \o "_" \o opt

(***************************************************************************)
(* Part III: BalancedGridP3 (services/Process/balanced_grid_p3.py).         *)
(*                                                                          *)
(* A region holds one question: four digit columns C1..C4 of twelve cells,  *)
(* one per row of digit_map.  A cell is [present, filled_ratio, mean].      *)
(* A string is a sequence of one-character symbols.                         *)
(***************************************************************************)
\* self.digit_map, line 76
DigitMap == <<"-", ",", "0", "1", "2", "3", "4", "5", "6", "7", "8", "9">>

DecimalDigits == {"0", "1", "2", "3", "4", "5", "6", "7", "8", "9"}

\* rows of a column whose cell was extracted, lines 446-449
PresentRows(column) == {r \in 1..Len(column) : column[r].present}

\* sorted(..., key=filled_ratio, reverse=True)[0]: the highest filled ratio,
\* the earliest row among equals (the sort is stable)
BestRow(column) ==
    CHOOSE r \in PresentRows(column) :
        /\ \A x \in PresentRows(column) : column[x].filled_ratio <= column[r].filled_ratio
        /\ \A x \in PresentRows(column) :
              x < r => column[x].filled_ratio < column[r].filled_ratio

\* sorted(...)[1]: the best of the remaining rows
SecondRow(column) ==
    LET others == PresentRows(column) \ {BestRow(column)}
    IN  CHOOSE r \in others :
            /\ \A x \in others : column[x].filled_ratio <= column[r].filled_ratio
            /\ \A x \in others : x < r => column[x].filled_ratio < column[r].filled_ratio

\* lines 460-510: the symbol selected in one column, "" when none is; the
\* gap is best - second in doubles, 0.5 for a column of one cell
SelectedDigit(column) ==
    IF PresentRows(column) = {} THEN ""
    ELSE LET best == BestRow(column)
             filled == column[best].filled_ratio
             mean_val == column[best].mean
             gap_at_least_005 ==
                    IF Cardinality(PresentRows(column)) > 1
                    THEN DiffAtLeast005(filled, column[SecondRow(column)].filled_ratio)
                    ELSE TRUE
             is_strong_bubble == filled >= 37 \/ (filled >= 35 /\ mean_val < 145)
             is_marginal_bubble == filled >= 34 /\ gap_at_least_005 /\ mean_val < 165
         IN  IF is_strong_bubble \/ is_marginal_bubble THEN DigitMap[best] ELSE ""

RECURSIVE NumberStr_KeepComma(_)
NumberStr_KeepComma(selected_digits) ==
    IF selected_digits = <<>> THEN <<>>
    ELSE LET d == Head(selected_digits)
         IN  (IF d = "" THEN <<>> ELSE <<d>>) \o NumberStr_KeepComma(Tail(selected_digits))

\* ''.join(selected_digits).replace(',', '.'), lines 513-518
RECURSIVE NumberStr(_)
NumberStr(selected_digits) ==
    IF selected_digits = <<>> THEN <<>>
    ELSE LET d == Head(selected_digits)
         IN  (IF d = "" THEN <<>> ELSE IF d = "," THEN <<".">> ELSE <<d>>)
                 \o NumberStr(Tail(selected_digits))

DigitValue(sym) == CHOOSE d \in 0..9 : ToString(d) = sym

RECURSIVE DigitsValue(_)
DigitsValue(digits) ==
    IF digits = <<>> THEN 0
    ELSE 10 * DigitsValue(SubSeq(digits, 1, Len(digits) - 1))
            + DigitValue(digits[Len(digits)])

Pow10(n) == IF n = 0 THEN 1 ELSE IF n = 1 THEN 10 ELSE IF n = 2 THEN 100 ELSE 1000

\* float(number_str) on a string over '-', '.', '0'..'9' of at most four
\* symbols: an optional leading '-', digits with at most one '.', at least
\* one digit; anything else raises ValueError.  The value is in thousandths.
FloatParses(str) ==
    LET body == IF str # <<>> /\ Head(str) = "-" THEN Tail(str) ELSE str
    IN  /\ \A i \in 1..Len(body) : body[i] \in DecimalDigits \cup {"."}
        /\ Cardinality({i \in 1..Len(body) : body[i] = "."}) <= 1
        /\ \E i \in 1..Len(body) : body[i] \in DecimalDigits

FloatValue(str) ==
    LET negative == Head(str) = "-"
        body == IF negative THEN Tail(str) ELSE str
        dots == {i \in 1..Len(body) : body[i] = "."}
        dot == IF dots = {} THEN Len(body) + 1 ELSE CHOOSE i \in dots : TRUE
        whole == SubSeq(body, 1, dot - 1)
        frac == SubSeq(body, dot + 1, Len(body))
        magnitude == 1000 * DigitsValue(whole) + DigitsValue(frac) * Pow10(3 - Len(frac))
    IN  IF negative THEN -magnitude ELSE magnitude

\* detect_p3_answer, lines 431-530: [none |-> TRUE] stands for None
DetectP3Answer(columns) ==
    IF \A c \in 1..Len(columns) : PresentRows(columns[c]) = {}
    THEN [none |-> TRUE, value |-> 0]
    ELSE LET number_str == NumberStr([c \in 1..Len(columns) |-> SelectedDigit(columns[c])])
         IN  IF number_str # <<>> /\ FloatParses(number_str)
             THEN [none |-> FALSE, value |-> FloatValue(number_str)]
             ELSE [none |-> TRUE, value |-> 0]

\* process_region, lines 532-574, on a non-empty region image: the entry of
\* the question, or no entry when the answer is None
ProcessRegionP3(columns, question_number) ==
    LET answer == DetectP3Answer(columns)
    IN  IF answer.none THEN <<>>
        ELSE <<[question |-> question_number, answer |-> answer.value]>>

(***************************************************************************)
(* Exam code: process_exam_code (services/Process/ec.py).                   *)
(*                                                                          *)
(* The rectified code area is a grid of 4 columns and 10 rows; grid[c][r+1] *)
(* is the mean of the Otsu-thresholded cell in column c (from 1), row r     *)
(* (from 0).                                                                *)
(***************************************************************************)
ExamCols == 4
ExamRows == 10

\* all_means, lines 233-239
AllMeans(grid) == {<<c, r>> : c \in 1..ExamCols, r \in 1..ExamRows}

\* sorted(all_means)[k], k from 0
KthSmallest(grid, k) ==
    CHOOSE v \in {grid[x[1]][x[2]] : x \in AllMeans(grid)} :
        /\ Cardinality({x \in AllMeans(grid) : grid[x[1]][x[2]] < v}) <= k
        /\ Cardinality({x \in AllMeans(grid) : grid[x[1]][x[2]] <= v}) > k

\* mean_val < np.percentile(all_means, 10), lines 241 and 261: with 40 means
\* the percentile is sorted[3] + 0.9 * (sorted[4] - sorted[3]); both sides
\* are multiplied by 10
IsFilled(grid, mean_val) ==
    10 * mean_val < KthSmallest(grid, 3) + 9 * KthSmallest(grid, 4)

\* lines 248-269 for the columns from col on: str(row) of every filled cell,
\* column by column and top to bottom within a column
RECURSIVE ExamCodeFrom(_, _, _)
ExamCodeFrom(grid, col, row) ==
    IF col > ExamCols THEN ""
    ELSE IF row >= ExamRows THEN ExamCodeFrom(grid, col + 1, 0)
    ELSE (IF IsFilled(grid, grid[col][row + 1]) THEN ToString(row) ELSE "")
             \o ExamCodeFrom(grid, col, row + 1)

\* process_exam_code, lines 22-333
ProcessExamCode(img) ==
    IF ~img.decoded THEN ""
    ELSE IF ~img.contour THEN ""
    ELSE IF img.raises THEN ""
    ELSE ExamCodeFrom(img.grid, 1, 0)

(***************************************************************************)
(* The images a session is given.                                           *)
(***************************************************************************)
Cell(filled_ratio, mean) == [present |-> TRUE, filled_ratio |-> filled_ratio, mean |-> mean]
NoCell == [present |-> FALSE, filled_ratio |-> 0, mean |-> 0]

\* --- exam-code images: a light grid with some darker cells
ExamGrid(dark) ==
    [c \in 1..ExamCols |-> [r \in 1..ExamRows |->
        IF \E d \in dark : d[1] = c /\ d[2] = r - 1
        THEN (CHOOSE d \in dark : d[1] = c /\ d[2] = r - 1)[3]
        ELSE 255]]

ExamDarkSets ==
    { {},
      {<<1, 2, 20>>, <<2, 4, 20>>, <<3, 1, 20>>, <<4, 7, 20>>},
      {<<1, 2, 20>>, <<2, 4, 20>>, <<3, 1, 20>>},
      {<<1, 2, 20>>, <<1, 3, 20>>, <<2, 4, 20>>, <<3, 1, 20>>},
      {<<1, 2, 10>>, <<1, 5, 50>>, <<2, 4, 20>>, <<3, 1, 30>>, <<4, 7, 40>>},
      {<<1, 2, 20>>, <<1, 5, 20>>, <<2, 4, 20>>, <<3, 1, 20>>, <<4, 7, 20>>} }

ExamImages ==
    {[decoded |-> FALSE, contour |-> FALSE, raises |-> FALSE, grid |-> ExamGrid({})],
     [decoded |-> TRUE, contour |-> FALSE, raises |-> FALSE, grid |-> ExamGrid({})],
     [decoded |-> TRUE, contour |-> TRUE, raises |-> TRUE, grid |-> ExamGrid({})]}
        \cup {[decoded |-> TRUE, contour |-> TRUE, raises |-> FALSE, grid |-> ExamGrid(d)] :
                 d \in ExamDarkSets}

\* --- answer images: decoded or not, the number of regions found, and what
\* the regions hold
ImageKinds == {"blank", "marked", "mixed"}

AnswerImages(max_found) ==
    {[decoded |-> FALSE, found |-> 0, kind |-> "blank"]}
        \cup [decoded : {TRUE}, found : 0..max_found, kind : ImageKinds]

\* Part I rows of region region_idx: cells extracted and their scores
P1BlankRow == [cells |-> 4, scores |-> <<0, 0, 0, 0>>]

P1MarkedRow(col) == [cells |-> 4, scores |-> [c \in 1..4 |-> IF c = col + 1 THEN 95 ELSE 5]]

P1EdgeRow(k) ==
    IF k % 5 = 1 THEN [cells |-> 4, scores |-> <<30, 0, 0, 0>>]
    ELSE IF k % 5 = 2 THEN [cells |-> 4, scores |-> <<25, 25, 0, 25>>]
    ELSE IF k % 5 = 3 THEN [cells |-> 4, scores |-> <<15, 70, 70, 0>>]
    ELSE IF k % 5 = 4 THEN [cells |-> 3, scores |-> <<95, 0, 0, 0>>]
    ELSE [cells |-> 4, scores |-> <<0, 15, 40, 130>>]

P1Rows(img, region_idx) ==
    [k \in 1..10 |->
        IF img.kind = "blank" THEN P1BlankRow
        ELSE IF img.kind = "marked" \/ region_idx % 2 = 1 THEN P1MarkedRow((k + region_idx) % 4)
        ELSE P1EdgeRow(k)]

\* Part II cells of region region_idx
P2BlankQuestion ==
    [o \in OptionSet |->
        IF o = "a" THEN [t |-> Cell(8, 209), f |-> Cell(8, 210)]
        ELSE [t |-> Cell(8, 210), f |-> Cell(8, 210)]]

P2MarkedQuestion ==
    [o \in OptionSet |->
        IF o = "a" THEN [t |-> Cell(45, 120), f |-> Cell(8, 210)]
        ELSE IF o = "b" THEN [t |-> Cell(8, 210), f |-> Cell(45, 120)]
        ELSE IF o = "c" THEN [t |-> Cell(13, 200), f |-> Cell(8, 210)]
        ELSE [t |-> Cell(12, 215), f |-> Cell(8, 210)]]

P2PartialQuestion ==
    [o \in OptionSet |->
        IF o = "a" THEN [t |-> NoCell, f |-> Cell(45, 120)]
        ELSE IF o = "b" THEN [t |-> NoCell, f |-> NoCell]
        ELSE IF o = "c" THEN [t |-> Cell(45, 120), f |-> Cell(8, 210)]
        ELSE [t |-> Cell(45, 120), f |-> NoCell]]

P2NoQuestion == [o \in OptionSet |-> [t |-> NoCell, f |-> NoCell]]

P2Region(img, region_idx) ==
    IF img.kind = "blank" THEN <<P2BlankQuestion, P2BlankQuestion>>
    ELSE IF img.kind = "marked" \/ region_idx % 2 = 1 THEN <<P2MarkedQuestion, P2MarkedQuestion>>
    ELSE IF region_idx = 0 THEN <<P2PartialQuestion, P2NoQuestion>>
    ELSE <<P2NoQuestion, P2NoQuestion>>

\* Part III columns of region region_idx: a column is light except for the
\* marked rows
P3Column(marks) ==
    [r \in 1..12 |->
        IF \E m \in marks : m[1] = r
        THEN LET m == CHOOSE x \in marks : x[1] = r IN Cell(m[2], m[3])
        ELSE Cell(12, 200)]

P3BlankRegion == [c \in 1..4 |-> P3Column({})]

\* '-', '1', ',', '5'
P3SignedRegion ==
    <<P3Column({<<1, 60, 100>>}), P3Column({<<4, 60, 100>>}),
      P3Column({<<2, 60, 100>>}), P3Column({<<8, 60, 100>>})>>

\* ',', ',', '1' and nothing
P3UnparseableRegion ==
    <<P3Column({<<2, 60, 100>>}), P3Column({<<2, 60, 100>>}),
      P3Column({<<4, 60, 100>>}), P3Column({})>>

\* '2' at exactly 0.37, ',' marginal with gap 0.05, a 0.36 cell too light to
\* count, a 0.33 cell
P3WeakRegion ==
    <<P3Column({<<5, 37, 180>>}), P3Column({<<2, 34, 164>>, <<7, 29, 170>>}),
      P3Column({<<6, 36, 170>>}), P3Column({<<8, 33, 100>>})>>

P3Region(img, region_idx) ==
    IF img.kind = "blank" THEN P3BlankRegion
    ELSE IF img.kind = "marked" \/ region_idx % 3 = 0 THEN P3SignedRegion
    ELSE IF region_idx % 3 = 1 THEN P3UnparseableRegion
    ELSE P3WeakRegion

\* --- answer keys: 40 letters, 32 booleans, 8 numbers
KeyOf(letter_shift, true_option, value) ==
    [p1 |-> [i \in 1..40 |-> [q |-> i, a |-> Letter((i * letter_shift) % 4)]],
     p2 |-> [i \in 1..32 |->
                [q |-> P2Key(((i - 1) \div 4) + 1, Options[((i - 1) % 4) + 1]),
                 a |-> Options[((i - 1) % 4) + 1] = true_option]],
     p3 |-> [i \in 1..8 |-> [q |-> i, a |-> value]]]

AnswerKeys == {KeyOf(0, "none", 2000), KeyOf(1, "a", -1500)}

NoKey == [p1 |-> <<>>, p2 |-> <<>>, p3 |-> <<>>]

(***************************************************************************)
(* scan_all_answers (services/Grade/create_ans.py, lines 159-195): the      *)
(* lists built from what the three extractors return.                       *)
(***************************************************************************)
\* lines 162-168: every entry has a question and an answer, so every entry
\* becomes (int(q), str(a))
P1List(answers) == [i \in 1..Len(answers) |-> [q |-> answers[i].question, a |-> answers[i].answer]]

\* lines 173-179: (f"q{q}_{opt}", bool) for each option the map holds, in the
\* order a, b, c, d
RECURSIVE P2ItemList(_, _)
P2ItemList(item, o) ==
    IF o > Len(Options) THEN <<>>
    ELSE (IF Options[o] \in DOMAIN item.answers
          THEN <<[q |-> P2Key(item.question, Options[o]), a |-> item.answers[Options[o]]]>>
          ELSE <<>>) \o P2ItemList(item, o + 1)

RECURSIVE P2List(_)
P2List(answers) ==
    IF answers = <<>> THEN <<>>
    ELSE P2ItemList(Head(answers), 1) \o P2List(Tail(answers))

\* lines 184-189: every entry of process_part3 carries a number
P3List(answers) == [i \in 1..Len(answers) |-> [q |-> answers[i].question, a |-> answers[i].answer]]

\* score_answers on non-empty dicts that hold the three parts
ScoreAnswers(scanned, correct) ==
    LET s1 == ScoreP1(scanned.p1, correct.p1)
        s2 == ScoreP2(scanned.p2, correct.p2)
        s3 == ScoreP3(scanned.p3, correct.p3)
    IN  [p1_score |-> s1, p2_score |-> s2, p3_score |-> s3,
         total_score |-> TotalScore(s1, s2, s3)]

(***************************************************************************)
(* One grading session (main.py): upload_exam_code, then                    *)
(* grade_exam_answers, whose scan_all_answers runs process_part1,           *)
(* process_part2 and process_part3 region by region.                        *)
(***************************************************************************)

NoScores == [p1_score |-> 0, p2_score |-> 0, p3_score |-> 0, total_score |-> 0]

IdlePart == [img |-> [decoded |-> FALSE, found |-> 0, kind |-> "blank"],
             region_idx |-> 0, question_offset |-> 0,
             all_answers |-> <<>>, returned |-> FALSE]

ScoreCallIdle ==
    /\ sa_pc = "idle"
    /\ given = [all_empty |-> FALSE, key_nonempty |-> FALSE, self |-> FALSE, clean |-> FALSE]

SessionIdle ==
    /\ ec = [img |-> [decoded |-> FALSE, contour |-> FALSE, raises |-> FALSE, grid |-> ExamGrid({})],
             returned |-> FALSE, exam_code |-> ""]
    /\ session = [exam_code |-> ""]
    /\ p1 = IdlePart /\ p2 = IdlePart /\ p3 = IdlePart
    /\ scanned_answers = NoKey
    /\ correct_ans = NoKey
    /\ status = 0

Init ==
    /\ pc = "exam_code"
    /\ SessionIdle
    /\ ApiIdle
    /\ ScoreCallIdle
    /\ scores = NoScores

\* upload_exam_code, main.py lines 228-250: the code process_exam_code
\* returns is stored in the session as it is
UploadExamCode ==
    /\ pc = "exam_code"
    /\ \E img \in ExamImages :
          /\ ec' = [img |-> img, returned |-> TRUE, exam_code |-> ProcessExamCode(img)]
          /\ session' = [exam_code |-> ProcessExamCode(img)]
    /\ pc' = "grade"
    /\ UNCHANGED <<sa_pc, given, scores, p1, p2, p3, scanned_answers, correct_ans, status>>
    /\ UNCHANGED api_vars

\* grade_exam_answers, main.py lines 266-272
GradeNoExamCode ==
    /\ pc = "grade"
    /\ session.exam_code = ""
    /\ status' = 400
    /\ pc' = "done"
    /\ UNCHANGED <<sa_pc, given, scores, ec, session, p1, p2, p3, scanned_answers, correct_ans>>
    /\ UNCHANGED api_vars

\* process_part1, lines 415-426: the image is read, the regions detected
P1Load ==
    /\ pc = "grade"
    /\ session.exam_code # ""
    /\ \E img \in AnswerImages(MaxP1Found) :
          p1' = [IdlePart EXCEPT !.img = img]
    /\ pc' = "p1"
    /\ UNCHANGED <<sa_pc, given, scores, ec, session, p2, p3, scanned_answers, correct_ans, status>>
    /\ UNCHANGED api_vars

\* process_part1, lines 428-438: one round of the loop over regions[:4];
\* process_region (lines 374-413) saves the grid picture of the region with
\* save_debug_grid (line 390, cv2.imwrite at line 177)
P1Region ==
    /\ pc = "p1"
    /\ p1.img.decoded
    /\ p1.region_idx < Min(p1.img.found, 4)
    /\ p1' = [p1 EXCEPT
                !.all_answers = @ \o ShiftQuestions(
                                         ProcessRegionP1(P1Rows(p1.img, p1.region_idx), p1.region_idx),
                                         p1.question_offset),
                !.question_offset = @ + 10,
                !.region_idx = @ + 1]
    /\ UNCHANGED <<sa_pc, given, scores, pc, ec, session, p2, p3, scanned_answers, correct_ans, status>>
    /\ disk' = disk \cup {[req |-> 0, dir |-> "debug_balanced"]}
    /\ UNCHANGED <<args, use_redis, scan_sessions, reqs, exams, store, cache>>

\* process_part1, lines 419-421 (no image: no answers) and 440-483 (sort and
\* return), then scan_all_answers lines 162-168
P1Return ==
    /\ pc = "p1"
    /\ ~p1.img.decoded \/ p1.region_idx = Min(p1.img.found, 4)
    /\ p1' = [p1 EXCEPT !.all_answers = SortByQuestion(@), !.returned = TRUE]
    /\ scanned_answers' = [scanned_answers EXCEPT !.p1 = P1List(SortByQuestion(p1.all_answers))]
    /\ pc' = "p2_load"
    /\ UNCHANGED <<sa_pc, given, scores, ec, session, p2, p3, correct_ans, status>>
    /\ UNCHANGED api_vars

\* process_part2, lines 494-509
P2Load ==
    /\ pc = "p2_load"
    /\ \E img \in AnswerImages(MaxP2Found) :
          p2' = [IdlePart EXCEPT !.img = img]
    /\ pc' = "p2"
    /\ UNCHANGED <<sa_pc, given, scores, ec, session, p1, p3, scanned_answers, correct_ans, status>>
    /\ UNCHANGED api_vars

\* process_part2, lines 510-518: one round of the loop over regions[:4];
\* process_region saves the grid picture of the region with save_debug_grid
\* (line 475, cv2.imwrite at line 226)
P2RegionStep ==
    /\ pc = "p2"
    /\ p2.img.decoded
    /\ p2.region_idx < Min(p2.img.found, 4)
    /\ p2' = [p2 EXCEPT
                !.all_answers = @ \o ProcessRegionP2(P2Region(p2.img, p2.region_idx),
                                                     p2.question_offset),
                !.question_offset = @ + 2,
                !.region_idx = @ + 1]
    /\ UNCHANGED <<sa_pc, given, scores, pc, ec, session, p1, p3, scanned_answers, correct_ans, status>>
    /\ disk' = disk \cup {[req |-> 0, dir |-> "debug_p2"]}
    /\ UNCHANGED <<args, use_redis, scan_sessions, reqs, exams, store, cache>>

\* process_part2, lines 500-502 and 520-566, then scan_all_answers lines 173-179
P2Return ==
    /\ pc = "p2"
    /\ ~p2.img.decoded \/ p2.region_idx = Min(p2.img.found, 4)
    /\ p2' = [p2 EXCEPT !.all_answers = SortByQuestion(@), !.returned = TRUE]
    /\ scanned_answers' = [scanned_answers EXCEPT !.p2 = P2List(SortByQuestion(p2.all_answers))]
    /\ pc' = "p3_load"
    /\ UNCHANGED <<sa_pc, given, scores, ec, session, p1, p3, correct_ans, status>>
    /\ UNCHANGED api_vars

\* process_part3, lines 576-588
P3Load ==
    /\ pc = "p3_load"
    /\ \E img \in AnswerImages(MaxP3Found) :
          p3' = [IdlePart EXCEPT !.img = img]
    /\ pc' = "p3"
    /\ UNCHANGED <<sa_pc, given, scores, ec, session, p1, p2, scanned_answers, correct_ans, status>>
    /\ UNCHANGED api_vars

\* process_part3, lines 591-613: one round of the loop over regions[:8];
\* process_region saves the grid picture of the region with save_debug_grid
\* (line 555, os.makedirs and cv2.imwrite at lines 312-322)
P3RegionStep ==
    /\ pc = "p3"
    /\ p3.img.decoded
    /\ p3.region_idx < Min(p3.img.found, 8)
    /\ p3' = [p3 EXCEPT
                !.all_answers = @ \o ProcessRegionP3(P3Region(p3.img, p3.region_idx),
                                                     p3.region_idx + 1),
                !.region_idx = @ + 1]
    /\ UNCHANGED <<sa_pc, given, scores, pc, ec, session, p1, p2, scanned_answers, correct_ans, status>>
    /\ disk' = disk \cup {[req |-> 0, dir |-> "debug_p3"]}
    /\ UNCHANGED <<args, use_redis, scan_sessions, reqs, exams, store, cache>>

\* process_part3, lines 582-584 and 615-667, then scan_all_answers lines 184-195
P3Return ==
    /\ pc = "p3"
    /\ ~p3.img.decoded \/ p3.region_idx = Min(p3.img.found, 8)
    /\ p3' = [p3 EXCEPT !.all_answers = SortByQuestion(@), !.returned = TRUE]
    /\ scanned_answers' = [scanned_answers EXCEPT !.p3 = P3List(SortByQuestion(p3.all_answers))]
    /\ pc' = "key"
    /\ UNCHANGED <<sa_pc, given, scores, ec, session, p1, p2, correct_ans, status>>
    /\ UNCHANGED api_vars

\* grade_exam_answers, main.py lines 289-295: no key for the exam code
GradeKeyNotFound ==
    /\ pc = "key"
    /\ status' = 404
    /\ pc' = "done"
    /\ UNCHANGED <<sa_pc, given, scores, ec, session, p1, p2, p3, scanned_answers, correct_ans>>
    /\ UNCHANGED api_vars

\* grade_exam_answers, main.py lines 289-326: the key is found, the answers
\* are scored, the exam is stored and the session deleted
GradeScore ==
    /\ pc = "key"
    /\ \E key \in AnswerKeys :
          /\ correct_ans' = key
          /\ scores' = ScoreAnswers(scanned_answers, key)
    /\ session' = [exam_code |-> ""]
    /\ status' = 201
    /\ pc' = "done"
    /\ UNCHANGED <<sa_pc, given, ec, p1, p2, p3, scanned_answers>>
    /\ UNCHANGED api_vars

(***************************************************************************)
(* score_answers as a pure function of its two arguments, part by part.     *)
(* The lists of each part are drawn when the part is scored; `given` keeps  *)
(* what the claims need to know of them.                                    *)
(***************************************************************************)
ScoreLetters == {"A", "B"}
ScoreBools == {TRUE, FALSE}
ScoreValues == {1500, 2500}

P1Entries == [q : 1..MaxQ, a : ScoreLetters]
P2Entries == {[q |-> P2Key(n, "a"), a |-> b] : n \in 1..MaxQ, b \in ScoreBools}
P3Entries == [q : 1..MaxQ, a : ScoreValues]

\* one part of an argument: the key may be missing from the dict
PartArgs(entries) ==
    {[present |-> FALSE, items |-> <<>>]}
        \cup {[present |-> TRUE, items |-> l] : l \in SeqsUpTo(entries, MaxLen)}

\* no question is listed with two different answers
NoConflict(items) ==
    \A i, j \in 1..Len(items) : items[i].q = items[j].q => items[i].a = items[j].a

NoteGiven(s, c) ==
    [all_empty    |-> given.all_empty /\ Len(s.items) = 0,
     key_nonempty |-> given.key_nonempty /\ Len(c.items) > 0,
     self         |-> given.self /\ s = c,
     clean        |-> given.clean /\ Len(s.items) > 0 /\ NoConflict(s.items)]

session_vars == <<pc, ec, session, p1, p2, p3, scanned_answers, correct_ans, status>>

ScoreInit ==
    /\ sa_pc = "start"
    /\ given = [all_empty |-> TRUE, key_nonempty |-> TRUE, self |-> TRUE, clean |-> TRUE]
    /\ scores = NoScores
    /\ pc = "idle"
    /\ SessionIdle
    /\ ApiIdle

\* lines 21-27: an argument that is None or an empty dict
SA_EarlyReturn ==
    /\ sa_pc = "start"
    /\ \E scanned_none, correct_none \in BOOLEAN :
          /\ scanned_none \/ correct_none
          /\ given' = [all_empty    |-> scanned_none,
                       key_nonempty |-> FALSE,
                       self         |-> scanned_none /\ correct_none,
                       clean        |-> FALSE]
    /\ scores' = NoScores
    /\ sa_pc' = "done"
    /\ UNCHANGED session_vars
    /\ UNCHANGED api_vars

\* line 29
SA_Begin ==
    /\ sa_pc = "start"
    /\ sa_pc' = "p1"
    /\ UNCHANGED <<given, scores>>
    /\ UNCHANGED session_vars
    /\ UNCHANGED api_vars

\* lines 32-50
SA_ScoreP1 ==
    /\ sa_pc = "p1"
    /\ \E s, c \in PartArgs(P1Entries) :
          /\ scores' = [scores EXCEPT !.p1_score = ScoreP1(s.items, c.items)]
          /\ given' = NoteGiven(s, c)
    /\ sa_pc' = "p2"
    /\ UNCHANGED session_vars
    /\ UNCHANGED api_vars

\* lines 53-85
SA_ScoreP2 ==
    /\ sa_pc = "p2"
    /\ \E s, c \in PartArgs(P2Entries) :
          /\ scores' = [scores EXCEPT !.p2_score = ScoreP2(s.items, c.items)]
          /\ given' = NoteGiven(s, c)
    /\ sa_pc' = "p3"
    /\ UNCHANGED session_vars
    /\ UNCHANGED api_vars

\* lines 88-125
SA_ScoreP3 ==
    /\ sa_pc = "p3"
    /\ \E s, c \in PartArgs(P3Entries) :
          /\ scores' = [scores EXCEPT !.p3_score = ScoreP3(s.items, c.items)]
          /\ given' = NoteGiven(s, c)
    /\ sa_pc' = "total"
    /\ UNCHANGED session_vars
    /\ UNCHANGED api_vars

\* lines 127-131
SA_Total ==
    /\ sa_pc = "total"
    /\ scores' = [scores EXCEPT
                    !.total_score = TotalScore(scores.p1_score, scores.p2_score, scores.p3_score)]
    /\ sa_pc' = "done"
    /\ UNCHANGED given
    /\ UNCHANGED session_vars
    /\ UNCHANGED api_vars

Next ==
    \/ UploadExamCode
    \/ GradeNoExamCode
    \/ P1Load
    \/ P1Region
    \/ P1Return
    \/ P2Load
    \/ P2RegionStep
    \/ P2Return
    \/ P3Load
    \/ P3RegionStep
    \/ P3Return
    \/ GradeKeyNotFound
    \/ GradeScore

vars == <<sa_pc, given, scores, pc, ec, session, p1, p2, p3, scanned_answers, correct_ans, status,
          args, use_redis, scan_sessions, reqs, exams, store, cache, disk>>

Spec == Init /\ [][Next]_vars

ScoreNext ==
    \/ SA_EarlyReturn
    \/ SA_Begin
    \/ SA_ScoreP1
    \/ SA_ScoreP2
    \/ SA_ScoreP3
    \/ SA_Total

SpecScore == ScoreInit /\ [][ScoreNext]_vars

(***************************************************************************)
(* Claims about score_answers.                                              *)
(***************************************************************************)
AllScores == {scores.p1_score, scores.p2_score, scores.p3_score, scores.total_score}

\* C6: every score returned by score_answers lies between 0.0 and 10.0,
\* with no assumption that question numbers are unique.
C6_ScoresInRange ==
    sa_pc = "done" => \A v \in AllScores : 0 <= v /\ v <= 1000

C8_AllEmptyScoresZero ==
    (sa_pc = "done" /\ given.all_empty) => AllScores = {0}

C8_Witness ==
    sa_pc = "done" /\ given.all_empty /\ given.key_nonempty /\ AllScores = {0}

\* C9 as stated: grading any answer set against itself gives 10.0 everywhere.
C9_SelfGradeIsTen ==
    (sa_pc = "done" /\ given.self) => AllScores = {1000}

\* C9 amended: grading an answer set against itself gives 10.0 everywhere
\* when each of its three lists is non-empty and lists no question with two
\* different answers.
C9_SelfGradeIsTenWhenClean ==
    (sa_pc = "done" /\ given.self /\ given.clean) => AllScores = {1000}

C9_Witness ==
    sa_pc = "done" /\ given.self /\ given.clean /\ AllScores = {1000}

(***************************************************************************)
(* Claims about what the extractors return and what a session grades.       *)
(***************************************************************************)
\* the entries of a returned list are numbered 1, 2, ..., n in that order
NumberedInOrder(answers, n) ==
    /\ Len(answers) = n
    /\ \A i \in 1..Len(answers) : answers[i].question = i

\* C1: process_part1 returns exactly 40 entries numbered 1..40 in order, and
\* so does the p1 list built from it, for every image.
C1_Part1HasFortyEntries ==
    p1.returned =>
        /\ NumberedInOrder(p1.all_answers, 40)
        /\ Len(scanned_answers.p1) = 40
        /\ \A i \in 1..Len(scanned_answers.p1) : scanned_answers.p1[i].q = i

\* C2: process_part3 returns exactly 8 entries numbered 1..8 in order, and
\* so does the p3 list built from it, for every image.
C2_Part3HasEightEntries ==
    p3.returned =>
        /\ NumberedInOrder(p3.all_answers, 8)
        /\ Len(scanned_answers.p3) = 8
        /\ \A i \in 1..Len(scanned_answers.p3) : scanned_answers.p3[i].q = i

\* C3: process_part2 returns exactly 8 entries, one per question 1..8,
\* whatever number of regions was found.
C3_Part2HasEightEntries ==
    p2.returned => NumberedInOrder(p2.all_answers, 8)

\* C4: every Part II entry emitted has an option map with exactly the keys
\* a, b, c, d and a boolean under each, also when cells of a pair are
\* missing; the p2 list built from the entries carries one boolean per key.
C4_OptionMapsAreBoolean ==
    /\ \A i \in 1..Len(p2.all_answers) :
          /\ DOMAIN p2.all_answers[i].answers = OptionSet
          /\ \A o \in OptionSet : p2.all_answers[i].answers[o] \in BOOLEAN
    /\ p2.returned =>
          /\ Len(scanned_answers.p2) = 4 * Len(p2.all_answers)
          /\ \A i \in 1..Len(scanned_answers.p2) : scanned_answers.p2[i].a \in BOOLEAN

\* a question whose pairs lack cells is emitted with all four keys
C4_Witness ==
    /\ p2.returned
    /\ p2.img.kind = "mixed"
    /\ p2.img.found = 1
    /\ Len(p2.all_answers) = 1
    /\ p2.all_answers[1].answers = [a |-> FALSE, b |-> FALSE, c |-> TRUE, d |-> FALSE]
    /\ Len(scanned_answers.p2) = 4

\* C5: the exam code returned, and the one stored in the session, is a
\* string of exactly 4 digits (process_exam_code has no path that returns
\* None; its result is a string of digits of the marked rows).
C5_ExamCodeHasFourDigits ==
    ec.returned =>
        /\ Len(ec.exam_code) = 4
        /\ pc = "grade" => Len(session.exam_code) = 4

\* C10: a blank sheet graded against any answer key scores 0 on every part
\* and on the total.
C10_BlankSheetScoresZero ==
    (/\ pc = "done"
     /\ status = 201
     /\ \A part \in {p1, p2, p3} : part.img.decoded /\ part.img.kind = "blank")
        => AllScores = {0}

\* the region a returned Part I entry came from: process_part1 adds 10 to
\* the question offset after every region
RegionOfQuestion(question) == (question - 1) \div 10

\* C11: a Part I answer is column-remapped iff its region index is 2 or 3;
\* there raw column i is emitted as the letter at (i - 2) mod 4 with the raw
\* letter kept alongside, and in regions 0 and 1 the raw letter is emitted.
C11_RemapOnlyInRegionsTwoAndThree ==
    \A i \in 1..Len(p1.all_answers) :
        LET e == p1.all_answers[i]
            region_idx == RegionOfQuestion(e.question)
        IN  /\ e.column_corrected <=> region_idx \in {2, 3}
            /\ region_idx \in {2, 3} =>
                  /\ e.answer = Letter((e.raw_column_index - 2) % 4)
                  /\ e.original_detected = Letter(e.raw_column_index)
            /\ region_idx \in {0, 1} => e.answer = Letter(e.raw_column_index)

\* S2: a raw 'C' of region 2 is returned as 'A', a raw 'C' of region 0 as 'C'
C11_Witness ==
    /\ p1.returned
    /\ \E i \in 1..Len(p1.all_answers) :
          /\ RegionOfQuestion(p1.all_answers[i].question) = 2
          /\ p1.all_answers[i].original_detected = "C"
          /\ p1.all_answers[i].answer = "A"
    /\ \E i \in 1..Len(p1.all_answers) :
          /\ RegionOfQuestion(p1.all_answers[i].question) = 0
          /\ p1.all_answers[i].raw_column_index = 2
          /\ p1.all_answers[i].answer = "C"
    /\ \E i \in 1..Len(p1.all_answers) :
          RegionOfQuestion(p1.all_answers[i].question) = 3

\* C12: an operation given bytes that do not decode into an image returns
\* no result (it fails with BadImage instead).
C12_UndecodableImageReturnsNothing ==
    /\ ec.returned => ec.img.decoded
    /\ \A part \in {p1, p2, p3} : part.returned => part.img.decoded

(***************************************************************************)
(* One part of score_answers with its two lists in view: the part is        *)
(* scored from a scanned list and a key list of at most MaxPartLen entries. *)
(* A Part I letter may be the empty string.                                 *)
(***************************************************************************)
PartQuestions == {1, 2}

PartP1Entries == [q : PartQuestions, a : {"A", "B", ""}]
PartP2Entries == [q : {P2Key(1, "a"), P2Key(1, "b")}, a : BOOLEAN]
PartP3Entries == [q : PartQuestions, a : {1500, 1505, 2500}]

PartEntries(part) ==
    IF part = 1 THEN PartP1Entries ELSE IF part = 2 THEN PartP2Entries ELSE PartP3Entries

PartsInit ==
    /\ sa_pc = "part"
    /\ given = [all_empty |-> FALSE, key_nonempty |-> FALSE, self |-> FALSE, clean |-> FALSE]
    /\ scores = NoScores
    /\ pc = "idle"
    /\ SessionIdle
    /\ HttpIdle
    /\ \E part \in 1..3 :
          args \in [part : {part},
                    scanned : SeqsUpTo(PartEntries(part), MaxPartLen),
                    correct : SeqsUpTo(PartEntries(part), MaxPartLen)]

\* create_ans.py lines 32-50
PA_ScoreP1 ==
    /\ sa_pc = "part" /\ args.part = 1
    /\ scores' = [scores EXCEPT !.p1_score = ScoreP1(args.scanned, args.correct)]
    /\ sa_pc' = "done"
    /\ UNCHANGED <<given, args>>
    /\ UNCHANGED <<session_vars, use_redis, scan_sessions, reqs, exams, store, cache, disk>>

\* create_ans.py lines 53-85
PA_ScoreP2 ==
    /\ sa_pc = "part" /\ args.part = 2
    /\ scores' = [scores EXCEPT !.p2_score = ScoreP2(args.scanned, args.correct)]
    /\ sa_pc' = "done"
    /\ UNCHANGED <<given, args>>
    /\ UNCHANGED <<session_vars, use_redis, scan_sessions, reqs, exams, store, cache, disk>>

\* create_ans.py lines 88-125
PA_ScoreP3 ==
    /\ sa_pc = "part" /\ args.part = 3
    /\ scores' = [scores EXCEPT !.p3_score = ScoreP3(args.scanned, args.correct)]
    /\ sa_pc' = "done"
    /\ UNCHANGED <<given, args>>
    /\ UNCHANGED <<session_vars, use_redis, scan_sessions, reqs, exams, store, cache, disk>>

PartsNext ==
    \/ PA_ScoreP1
    \/ PA_ScoreP2
    \/ PA_ScoreP3

SpecParts == PartsInit /\ [][PartsNext]_vars

\* the score of the part that was scored
PartScore ==
    IF args.part = 1 THEN scores.p1_score
    ELSE IF args.part = 2 THEN scores.p2_score
    ELSE scores.p3_score

\* C13: a part in which every scanned answer is empty (no entry at all, or
\* for Part I entries that carry the empty letter) adds nothing to the
\* correct count: the part scores 0 whatever the answer key holds.
C13_EmptyAnswersNeverCount ==
    (/\ sa_pc = "done"
     /\ IF args.part = 1
        THEN \A i \in 1..Len(args.scanned) : args.scanned[i].a = ""
        ELSE Len(args.scanned) = 0)
        => PartScore = 0

\* the key's answer of entry i of the scanned list: the last key entry of
\* that question, if there is one
KeyEntryFor(i) ==
    {j \in 1..Len(args.correct) :
        /\ args.correct[j].q = args.scanned[i].q
        /\ \A k \in (j + 1)..Len(args.correct) : args.correct[k].q # args.scanned[i].q}

\* the number of questions (Part I, III) or (question, option) pairs
\* (Part II) the claim counts as matching
MatchingCount ==
    IF args.part = 2
    THEN Cardinality({k \in {args.correct[j].q : j \in 1..Len(args.correct)} :
            \E i \in 1..Len(args.scanned) :
                /\ args.scanned[i].q = k
                /\ \A n \in (i + 1)..Len(args.scanned) : args.scanned[n].q # k
                /\ \E j \in KeyEntryFor(i) : args.correct[j].a = args.scanned[i].a})
    ELSE Cardinality({i \in 1..Len(args.scanned) :
            \E j \in KeyEntryFor(i) :
                IF args.part = 1 THEN args.correct[j].a = args.scanned[i].a
                ELSE Abs(args.correct[j].a - args.scanned[i].a) < 10})

FixedDivisor == IF args.part = 1 THEN 40 ELSE IF args.part = 2 THEN 32 ELSE 8

\* the number of entries the key holds for the part: list entries for
\* Part I and III, distinct keys for Part II
KeyDivisor ==
    IF args.part = 2 THEN Cardinality({args.correct[j].q : j \in 1..Len(args.correct)})
    ELSE Len(args.correct)

\* C14 as stated: every part is its matching count over 40, 32 or 8, times
\* 10, for every answer key.
C14_FixedDivisors ==
    sa_pc = "done" => PartScore = Round2Score(MatchingCount, FixedDivisor)

\* C14 amended: every part is its matching count over the number of entries
\* the key holds for that part, times 10, and 0 when either list is empty.
C14_DividesByKeyLength ==
    sa_pc = "done" =>
        PartScore = IF Len(args.scanned) > 0 /\ Len(args.correct) > 0
                    THEN Round2Score(MatchingCount, KeyDivisor)
                    ELSE 0

\* one of two key entries matched: 5.0, where the fixed divisor gives 1.25
C14_Witness ==
    /\ sa_pc = "done"
    /\ args.part = 3
    /\ Len(args.correct) = 2
    /\ MatchingCount = 1
    /\ PartScore = 500

(***************************************************************************)
(* The HTTP layer (main.py): one session id, up to MaxReq requests served   *)
(* concurrently, the answer-key collection with the lru_cache in front of   *)
(* it, the exam records and the temporary files.  A handler is cut into     *)
(* steps at its reads and writes of shared state.                           *)
(***************************************************************************)
Requests == 1..MaxReq

\* the images an exam-code upload is given: one that does not decode, the
\* sheet marked 2417
ApiExamImages ==
    {[decoded |-> FALSE, contour |-> FALSE, raises |-> FALSE, grid |-> ExamGrid({})],
     [decoded |-> TRUE, contour |-> TRUE, raises |-> FALSE,
      grid |-> ExamGrid({<<1, 2, 20>>, <<2, 4, 20>>, <<3, 1, 20>>, <<4, 7, 20>>})]}

\* what scan_exam_code returns for them, line 242
ApiExamCodes == {ProcessExamCode(img) : img \in ApiExamImages}

\* not get_session_data(session_id), lines 98-104: no data, or an empty hash
SessionInvalid(data) == ~data.exists

\* set_session_data, lines 107-115: the session entry is created when it is
\* not there, in memory and in Redis alike
SetSessionData(data, key, value) ==
    IF key = "exam_code"
    THEN [exists |-> TRUE, has_exam_code |-> TRUE, exam_code |-> value]
    ELSE [data EXCEPT !.exists = TRUE]

\* not exam_code, line 271, for exam_code = data.get('exam_code')
NoExamCode_OnlyMissing(data) == ~data.has_exam_code

NoExamCode(data) == ~data.has_exam_code \/ data.exam_code = ""

\* get_cached_correct_answers, lines 139-142: lru_cache keeps whatever the
\* first lookup of an exam code returned, None included
CachedLookup == IF cache.cached THEN cache.value ELSE store.answers

\* not correct_ans, line 292
KeyNotFound_Never(answer_key) == FALSE

KeyNotFound(answer_key) == answer_key = 0

\* the files under get_session_temp_dir(session_id), lines 77-81
\* what a lookup came back with: None, or a key
Resolved(answer_key) == IF answer_key = 0 THEN "none" ELSE "key"

\* CorrectAnsDbService.get_correct_ans_by_exam_code, the direct lookup
DirectLookup == store.answers

SessionFiles == {f \in disk : f.dir = "session"}

Running(r) == reqs[r].kind # "none" /\ reqs[r].pc # "returned"

Returned(r) == reqs[r].pc = "returned"

GradeSucceeded == \E r \in Requests : reqs[r].kind = "grade" /\ reqs[r].status = 201

Return(r, status_code) == [reqs EXCEPT ![r].pc = "returned", ![r].status = status_code]

ApiInit ==
    /\ sa_pc = "idle"
    /\ given = [all_empty |-> FALSE, key_nonempty |-> FALSE, self |-> FALSE, clean |-> FALSE]
    /\ scores = NoScores
    /\ pc = "idle"
    /\ SessionIdle
    /\ args = NoArgs
    /\ use_redis \in BOOLEAN
    /\ scan_sessions = [started |-> FALSE, data |-> NoSession, code_uploaded |-> FALSE]
    /\ reqs = [r \in Requests |-> NoRequest]
    /\ exams = {}
    /\ store = [answers |-> 0, writes |-> 0]
    /\ cache = [cached |-> FALSE, value |-> 0]
    /\ disk = {}

core_vars == <<sa_pc, given, scores, session_vars, args>>

\* start_exam_session, lines 217-225
StartSession ==
    /\ ~scan_sessions.started
    /\ scan_sessions' = [scan_sessions EXCEPT
                            !.started = TRUE,
                            !.data = SetSessionData(SetSessionData(@, "created_at", "now"),
                                                    "status", "started")]
    /\ UNCHANGED <<core_vars, use_redis, reqs, exams, store, cache, disk>>

\* redis_client.expire(key, 1800), line 111: Redis drops the hash
RedisExpire ==
    /\ use_redis
    /\ scan_sessions.data.exists
    /\ scan_sessions' = [scan_sessions EXCEPT !.data = NoSession]
    /\ UNCHANGED <<core_vars, use_redis, reqs, exams, store, cache, disk>>

\* a request carrying the session id arrives (before_request, lines 149-154)
Arrive(r, kind) ==
    /\ reqs[r].kind = "none"
    /\ \A r2 \in Requests : r2 < r => reqs[r2].kind # "none"
    /\ reqs' = [reqs EXCEPT ![r] = [NoRequest EXCEPT
                    !.kind = kind,
                    !.pc = "check",
                    !.after_grade = GradeSucceeded]]
    /\ UNCHANGED <<core_vars, use_redis, scan_sessions, exams, store, cache, disk>>

\* --- upload_exam_code, lines 228-250
\* lines 231-237: the session and the image are checked
U_Check(r) ==
    /\ reqs[r].kind = "upload" /\ reqs[r].pc = "check"
    /\ \E has_image \in BOOLEAN :
          reqs' = IF SessionInvalid(scan_sessions.data)
                  THEN [Return(r, 400) EXCEPT ![r].seen = "invalid"]
                  ELSE IF ~has_image THEN Return(r, 400)
                  ELSE [reqs EXCEPT ![r].pc = "store"]
    /\ UNCHANGED <<core_vars, use_redis, scan_sessions, exams, store, cache, disk>>

\* lines 239-244: the file is written into the session's directory
\* (save_uploaded_file, lines 130-136), the code is scanned and stored in
\* the session; an exception answers 500 (lines 248-250)
U_SetCode(r) ==
    /\ reqs[r].kind = "upload" /\ reqs[r].pc = "store"
    /\ \/ \E exam_code \in ApiExamCodes :
             /\ disk' = disk \cup {[req |-> r, dir |-> "session"]}
             /\ scan_sessions' = [scan_sessions EXCEPT
                   !.data = SetSessionData(@, "exam_code", exam_code),
                   !.code_uploaded = @ \/ exam_code # ""]
             /\ reqs' = [reqs EXCEPT ![r].pc = "set_img"]
       \/ /\ reqs' = Return(r, 500)
          /\ UNCHANGED <<scan_sessions, disk>>
    /\ UNCHANGED <<core_vars, use_redis, exams, store, cache>>

\* lines 245-247: the path is stored in the session, 200 is returned
U_SetImg(r) ==
    /\ reqs[r].kind = "upload" /\ reqs[r].pc = "set_img"
    /\ scan_sessions' = [scan_sessions EXCEPT
                            !.data = SetSessionData(@, "exam_code_img", "filepath")]
    /\ reqs' = Return(r, 200)
    /\ UNCHANGED <<core_vars, use_redis, exams, store, cache, disk>>

\* --- grade_exam_answers, lines 253-330
\* lines 256-264: the session and the three images are checked
G_Check(r) ==
    /\ reqs[r].kind = "grade" /\ reqs[r].pc = "check"
    /\ \E has_images \in BOOLEAN :
          reqs' = IF SessionInvalid(scan_sessions.data)
                  THEN [Return(r, 400) EXCEPT ![r].seen = "invalid"]
                  ELSE IF ~has_images THEN Return(r, 400)
                  ELSE [reqs EXCEPT ![r].pc = "read"]
    /\ UNCHANGED <<core_vars, use_redis, scan_sessions, exams, store, cache, disk>>

\* lines 267-287: the session is read again (data.get on None raises and
\* the handler answers 500), the three sheets are written into the
\* session's directory and scanned; a scan that raises answers 500
G_Read(r) ==
    /\ reqs[r].kind = "grade" /\ reqs[r].pc = "read"
    /\ IF SessionInvalid(scan_sessions.data)
       THEN /\ reqs' = Return(r, 500)
            /\ UNCHANGED disk
       ELSE IF NoExamCode(scan_sessions.data)
       THEN /\ reqs' = [Return(r, 400) EXCEPT ![r].seen = "nocode"]
            /\ UNCHANGED disk
       ELSE /\ disk' = disk \cup {[req |-> r, dir |-> "session"]}
            /\ \/ reqs' = [reqs EXCEPT ![r].pc = "key", ![r].seen = "code",
                                       ![r].scanned = TRUE]
               \/ reqs' = [Return(r, 500) EXCEPT ![r].seen = "code"]
    /\ UNCHANGED <<core_vars, use_redis, scan_sessions, exams, store, cache>>

\* lines 289-295: the key is looked up through the cache
G_GetKey(r) ==
    /\ reqs[r].kind = "grade" /\ reqs[r].pc = "key"
    /\ cache' = [cached |-> TRUE, value |-> CachedLookup]
    /\ reqs' = IF KeyNotFound(CachedLookup)
               THEN [Return(r, 404) EXCEPT ![r].resolved = Resolved(CachedLookup)]
               ELSE [reqs EXCEPT ![r].pc = "create",
                                 ![r].resolved = Resolved(CachedLookup)]
    /\ UNCHANGED <<core_vars, use_redis, scan_sessions, exams, store, disk>>

\* lines 297-309: the answers are scored and the exam record is inserted
G_Create(r) ==
    /\ reqs[r].kind = "grade" /\ reqs[r].pc = "create"
    /\ exams' = exams \cup {[req |-> r]}
    /\ reqs' = [reqs EXCEPT ![r].pc = "delete", ![r].created_exam = TRUE]
    /\ UNCHANGED <<core_vars, use_redis, scan_sessions, store, cache, disk>>

\* lines 311-326 and delete_session, lines 118-127: the session entry and
\* its directory are removed, 201 is returned
G_Delete(r) ==
    /\ reqs[r].kind = "grade" /\ reqs[r].pc = "delete"
    /\ scan_sessions' = [scan_sessions EXCEPT !.data = NoSession]
    /\ disk' = disk \ SessionFiles
    /\ reqs' = [Return(r, 201) EXCEPT ![r].deleted_session = TRUE]
    /\ UNCHANGED <<core_vars, use_redis, exams, store, cache>>

\* --- the direct scans; a request that has returned owns its files as 0.
\* They carry no session id and touch nothing but their own files, so
\* every order of them and the session's requests leaves the same state:
\* the model serves them before the session's first request.
NoneArrived == \A r \in Requests : reqs[r].kind = "none"

\* scan_exam_code_direct, lines 648-667: the upload is written to a
\* NamedTemporaryFile(delete=False) and scanned
ScanExamCodeDirect ==
    /\ NoneArrived
    /\ disk' = disk \cup {[req |-> 0, dir |-> "tmp"]}
    /\ UNCHANGED <<core_vars, use_redis, scan_sessions, reqs, exams, store, cache>>

\* scan_answers_direct, lines 670-704: three such files, in the same
\* directory
ScanAnswersDirect ==
    /\ NoneArrived
    /\ disk' = disk \cup {[req |-> 0, dir |-> "tmp"]}
    /\ UNCHANGED <<core_vars, use_redis, scan_sessions, reqs, exams, store, cache>>

\* --- the answer-key endpoints; a key is the number of the write that
\* stored it, 0 is no key
\* create_correct_answers_manual, lines 549-584, and update_correct_answers,
\* lines 602-615: CorrectAnsDbService.update_correct_ans upserts the key
update_correct_ans ==
    /\ store.writes < MaxKeyOps
    /\ store' = [answers |-> store.writes + 1, writes |-> store.writes + 1]
    /\ UNCHANGED <<core_vars, use_redis, scan_sessions, reqs, exams, cache, disk>>

\* delete_correct_answers, lines 618-627
delete_correct_answers ==
    /\ store.writes < MaxKeyOps
    /\ store.answers # 0
    /\ store' = [answers |-> 0, writes |-> store.writes + 1]
    /\ UNCHANGED <<core_vars, use_redis, scan_sessions, reqs, exams, cache, disk>>

ApiNext ==
    \/ StartSession
    \/ RedisExpire
    \/ \E r \in Requests : \E kind \in {"upload", "grade"} : Arrive(r, kind)
    \/ \E r \in Requests : U_Check(r)
    \/ \E r \in Requests : U_SetCode(r)
    \/ \E r \in Requests : U_SetImg(r)
    \/ \E r \in Requests : G_Check(r)
    \/ \E r \in Requests : G_Read(r)
    \/ \E r \in Requests : G_GetKey(r)
    \/ \E r \in Requests : G_Create(r)
    \/ \E r \in Requests : G_Delete(r)
    \/ ScanExamCodeDirect
    \/ ScanAnswersDirect
    \/ update_correct_ans
    \/ delete_correct_answers

SpecApi == ApiInit /\ [][ApiNext]_vars

(***************************************************************************)
(* Claims about the HTTP layer.                                             *)
(***************************************************************************)
\* C15: every temporary image file written while serving a request is gone
\* from disk by the time the request returns, so every file on disk belongs
\* to a request that is still being served.
C15_TempFilesRemovedOnReturn ==
    \A f \in disk : f.req \in Requests /\ Running(f.req)

\* C16: whenever a grade looks the key up, get_cached_correct_answers
\* returns what a direct store lookup returns at that moment.
C16_CachedEqualsStore ==
    [][\A r \in Requests : G_GetKey(r) => CachedLookup = DirectLookup]_vars

\* C17: a grade whose key lookup resolves nothing answers 404, has inserted
\* no exam record and has not deleted the session, and it had already
\* extracted the answers.
C17_KeyNotFoundIsNotFatalToExtraction ==
    \A r \in Requests :
        reqs[r].resolved = "none" =>
            /\ Returned(r)
            /\ reqs[r].status = 404
            /\ reqs[r].scanned
            /\ ~reqs[r].created_exam
            /\ ~reqs[r].deleted_session
            /\ \A e \in exams : e.req # r

\* a grade answered 404 and the session and its exam code are still there
C17_Witness ==
    \E r \in Requests :
        /\ reqs[r].kind = "grade"
        /\ reqs[r].status = 404
        /\ scan_sessions.data.exists
        /\ scan_sessions.data.exam_code # ""
        /\ exams = {}

C19_SessionGoneAfterGrade ==
    \A r \in Requests :
        reqs[r].after_grade /\ Returned(r) =>
            /\ reqs[r].status = 400
            /\ reqs[r].seen = "invalid"
            /\ ~reqs[r].created_exam

\* C20: two grades of the session that are served at the same time do not
\* both insert an exam record.
C20_ConcurrentGradesCreateOneExam ==
    \A r1, r2 \in Requests :
        /\ r1 # r2
        /\ Running(r1) /\ Running(r2)
        /\ reqs[r1].kind = "grade" /\ reqs[r2].kind = "grade"
        => ~(reqs[r1].created_exam /\ reqs[r2].created_exam)

\* detect_regions of Part I, balanced_grid_omr.py lines 32-63, on the
\* four-cornered contours in the order findContours gives them, each with
\* its position from the top of the sheet (0..3) and its area: contours
\* under 30000 are dropped and the rest sorted by area, largest first, the
\* sort being stable.  process_part1 (lines 425-438) gives the region at
\* index region_idx the offset 10 * region_idx.
DetectRegions(contours) ==
    LET valid == SelectSeq(contours, LAMBDA c : c.area >= 30000)
        n == Len(valid)
        before(i, j) == \/ valid[i].area > valid[j].area
                        \/ valid[i].area = valid[j].area /\ i < j
        order == CHOOSE f \in [1..n -> 1..n] :
                    /\ \A i, j \in 1..n : i # j => f[i] # f[j]
                    /\ \A i, j \in 1..n : i < j => before(f[i], f[j])
    IN  [region_idx \in 1..n |->
            [top |-> valid[order[region_idx]].top,
             area |-> valid[order[region_idx]].area,
             question_offset |-> 10 * (region_idx - 1)]]

(***************************************************************************)
(* The decisions taken on the cells of one row, pair, column or grid: each  *)
(* is called once on an input kept in args, and its result is kept next to  *)
(* the input.                                                               *)
(***************************************************************************)
\* the scores lines 288-322 can give a Part I cell, in tenths: nothing,
\* the darkness ratio alone (2.5), the 25th percentile alone (3.0), the
\* mean alone (4.0)
CellInputs ==
    [fn : {"detect_answers"}, input : [1..4 -> {0, 25, 30, 40}], out : {<<>>}]
    \cup
    \* a Part II pair: the filled ratios of the True and the False cell in
    \* hundredths, and their means
    [fn : {"compare"},
     input : [t : {Cell(x, m) : x \in {8, 10, 13, 15, 20}, m \in {120, 200}},
              f : {Cell(x, m) : x \in {8, 10, 13, 15, 20}, m \in {120, 200}}],
     out : {<<>>}]
    \cup
    \* a Part III column with two cells, the '1' and the '2': the best
    \* cell's filled ratio (hundredths) and mean, the other's filled ratio
    [fn : {"select"},
     input : {[r \in 1..12 |-> IF r = 4 THEN x ELSE IF r = 5 THEN Cell(y, 200) ELSE NoCell] :
                 x \in {Cell(a, m) : a \in {33, 34, 35, 36, 37}, m \in {140, 150, 170}},
                 y \in {25, 29, 30, 31, 32}},
     out : {<<>>}]
    \cup
    \* a Part III region: per column the digit_map row of the one clearly
    \* filled cell ('-', ',', '1', '5'), 0 for a column without one
    [fn : {"detect_p3_answer"}, input : [1..4 -> {0, 1, 2, 4, 8}], out : {<<>>}]
    \cup
    \* a Part I sheet: its four answer blocks as contours, in any order,
    \* each with its position from the top and its area
    [fn : {"detect_regions"},
     input : {[i \in 1..4 |-> [top |-> tops[i], area |-> areas[i]]] :
                 tops \in {f \in [1..4 -> 0..3] : \A i, j \in 1..4 : i # j => f[i] # f[j]},
                 areas \in [1..4 -> {40000, 45000}]},
     out : {<<>>}]
    \cup
    \* a rectified and rotated tile: its width and height in pixels, handed
    \* to one of the three grid builders
    [fn : {"create_balanced_grid", "create_balanced_grid_p2", "create_balanced_grid_p3"},
     input : [width : 1..MaxTile, height : 1..MaxTile],
     out : {<<>>}]

CellsInit ==
    /\ sa_pc = "cells"
    /\ given = [all_empty |-> FALSE, key_nonempty |-> FALSE, self |-> FALSE, clean |-> FALSE]
    /\ scores = NoScores
    /\ pc = "idle"
    /\ SessionIdle
    /\ HttpIdle
    /\ args \in CellInputs

\* detect_answers on the four cells of one row (balanced_grid_omr.py
\* lines 279-344)
Do_detect_answers ==
    /\ sa_pc = "cells" /\ args.fn = "detect_answers"
    /\ args' = [args EXCEPT !.out = DetectAnswers(<<[cells |-> 4, scores |-> args.input]>>)]
    /\ sa_pc' = "done"
    /\ UNCHANGED <<given, scores, session_vars, use_redis, scan_sessions, reqs, exams,
                   store, cache, disk>>

\* the paired comparison of detect_p2_answers on one (question, option)
\* (balanced_grid_p2.py lines 401-434)
Do_compare ==
    /\ sa_pc = "cells" /\ args.fn = "compare"
    /\ args' = [args EXCEPT !.out = CompareCells(args.input.t, args.input.f)]
    /\ sa_pc' = "done"
    /\ UNCHANGED <<given, scores, session_vars, use_redis, scan_sessions, reqs, exams,
                   store, cache, disk>>

\* the selection of detect_p3_answer in one column (balanced_grid_p3.py
\* lines 460-510)
Do_select ==
    /\ sa_pc = "cells" /\ args.fn = "select"
    /\ args' = [args EXCEPT !.out = SelectedDigit(args.input)]
    /\ sa_pc' = "done"
    /\ UNCHANGED <<given, scores, session_vars, use_redis, scan_sessions, reqs, exams,
                   store, cache, disk>>

\* detect_p3_answer on the 48 cells of one region (balanced_grid_p3.py
\* lines 431-530)
Do_detect_p3_answer ==
    /\ sa_pc = "cells" /\ args.fn = "detect_p3_answer"
    /\ args' = [args EXCEPT !.out = DetectP3Answer(
                    [c \in 1..4 |-> P3Column(IF args.input[c] = 0 THEN {}
                                             ELSE {<<args.input[c], 60, 100>>})])]
    /\ sa_pc' = "done"
    /\ UNCHANGED <<given, scores, session_vars, use_redis, scan_sessions, reqs, exams,
                   store, cache, disk>>

\* detect_regions and the region numbering of process_part1
\* (balanced_grid_omr.py lines 32-63 and 425-438)
Do_detect_regions ==
    /\ sa_pc = "cells" /\ args.fn = "detect_regions"
    /\ args' = [args EXCEPT !.out = DetectRegions(args.input)]
    /\ sa_pc' = "done"
    /\ UNCHANGED <<given, scores, session_vars, use_redis, scan_sessions, reqs, exams,
                   store, cache, disk>>

\* The grid builders compute with doubles and truncate with int().  For the
\* tile sizes up to MaxTile + 1 every truncated product below equals the
\* integer quotient written here (the doubles 0.09 * height, 0.35 *
\* remaining_height, 0.575 * width, ... never fall on the other side of an
\* integer in that range; the first sizes where they do are a height of 131
\* and a width of 200).

\* create_balanced_grid (balanced_grid_omr.py lines 65-120): the header line
\* at 9% of the height, ten row lines spread over the rest with the upward
\* correction int((i - 4) * 1.5) from row 5 on, the question column at 15% of
\* the width and four answer columns over the rest
CreateBalancedGrid(width, height) ==
    LET header_height == (9 * height) \div 100
        remaining_height == height - header_height
        correction(i) == IF i < 5 THEN 0 ELSE (3 * (i - 4)) \div 2
        y(i) == header_height + ((i * remaining_height) \div 10) - correction(i)
        q_col_width == (15 * width) \div 100
        remaining_width == width - q_col_width
    IN  [h_lines |-> <<0, header_height>> \o [i \in 1..10 |-> y(i)],
         v_lines |-> <<0,
                       q_col_width,
                       q_col_width + (remaining_width \div 4),
                       q_col_width + ((2 * remaining_width) \div 4),
                       q_col_width + ((3 * remaining_width) \div 4),
                       width>>]

\* create_balanced_grid_p2 (balanced_grid_p2.py lines 109-175): the header
\* line at 32% of the height, the row lines at 35%, 50%, 70% and 100% of the
\* rest, the label column at 15% of the width and the four bubble columns at
\* 36.25%, 57.5% and 78.75%
CreateBalancedGridP2(width, height) ==
    LET header_height == (32 * height) \div 100
        remaining_height == height - header_height
        row_positions == <<35, 50, 70, 100>>
    IN  [h_lines |-> <<0, header_height>> \o
                     [k \in 1..4 |->
                         header_height + ((remaining_height * row_positions[k]) \div 100)],
         v_lines |-> <<0,
                       (15 * width) \div 100,
                       (3625 * width) \div 10000,
                       (575 * width) \div 1000,
                       (7875 * width) \div 10000,
                       width>>]

\* create_balanced_grid_p3 (balanced_grid_p3.py lines 163-265): the header
\* line at 8% of the height, eleven row lines over the rest (twelve rows)
\* with the upward shifts of rows 5 to 11, the bottom line at the height, and
\* the same columns as Part II
CreateBalancedGridP3(width, height) ==
    LET header_height == (8 * height) \div 100
        remaining_height == height - header_height
        shift(i) == CASE i = 5 -> (2 * height) \div 100
                      [] i = 6 -> 10
                      [] i = 7 -> 14
                      [] i = 8 -> 20
                      [] i = 9 -> 22
                      [] i = 10 -> 20
                      [] i = 11 -> 25
                      [] OTHER -> 0
        y(i) == header_height + ((remaining_height * i) \div 12) - shift(i)
    IN  [h_lines |-> <<0, header_height>> \o [i \in 1..11 |-> y(i)] \o <<height>>,
         v_lines |-> <<0,
                       (15 * width) \div 100,
                       (3625 * width) \div 10000,
                       (575 * width) \div 1000,
                       (7875 * width) \div 10000,
                       width>>]

\* create_balanced_grid as process_region calls it
\* (balanced_grid_omr.py line 387)
Do_create_balanced_grid ==
    /\ sa_pc = "cells" /\ args.fn = "create_balanced_grid"
    /\ args' = [args EXCEPT !.out = CreateBalancedGrid(args.input.width, args.input.height)]
    /\ sa_pc' = "done"
    /\ UNCHANGED <<given, scores, session_vars, use_redis, scan_sessions, reqs, exams,
                   store, cache, disk>>

\* create_balanced_grid_p2 as process_region calls it
\* (balanced_grid_p2.py line 472)
Do_create_balanced_grid_p2 ==
    /\ sa_pc = "cells" /\ args.fn = "create_balanced_grid_p2"
    /\ args' = [args EXCEPT !.out = CreateBalancedGridP2(args.input.width, args.input.height)]
    /\ sa_pc' = "done"
    /\ UNCHANGED <<given, scores, session_vars, use_redis, scan_sessions, reqs, exams,
                   store, cache, disk>>

\* create_balanced_grid_p3 as process_region calls it
\* (balanced_grid_p3.py line 552)
Do_create_balanced_grid_p3 ==
    /\ sa_pc = "cells" /\ args.fn = "create_balanced_grid_p3"
    /\ args' = [args EXCEPT !.out = CreateBalancedGridP3(args.input.width, args.input.height)]
    /\ sa_pc' = "done"
    /\ UNCHANGED <<given, scores, session_vars, use_redis, scan_sessions, reqs, exams,
                   store, cache, disk>>

CellsNext ==
    \/ Do_detect_answers
    \/ Do_compare
    \/ Do_select
    \/ Do_detect_p3_answer
    \/ Do_detect_regions
    \/ Do_create_balanced_grid
    \/ Do_create_balanced_grid_p2
    \/ Do_create_balanced_grid_p3

SpecCells == CellsInit /\ [][CellsNext]_vars

\* C21: a Part I row of four scored cells emits a letter exactly when its
\* highest score is at least 3.0; the letter is that of the first column
\* holding the highest score and the confidence is that score.
C21_LetterIffMaxAtLeastThree ==
    (sa_pc = "done" /\ args.fn = "detect_answers") =>
        LET s == args.input
            m == CHOOSE v \in {s[i] : i \in 1..4} : \A i \in 1..4 : s[i] <= v
        IN  /\ Len(args.out) = (IF m >= 30 THEN 1 ELSE 0)
            /\ m >= 30 =>
                  /\ \E i \in 1..4 :
                        /\ s[i] = m
                        /\ \A j \in 1..(i - 1) : s[j] < m
                        /\ args.out[1].answer = Letters[i]
                  /\ args.out[1].confidence = m

\* the highest score is exactly 3.0 and two columns hold it
C21_Witness ==
    /\ sa_pc = "done" /\ args.fn = "detect_answers"
    /\ args.input = <<0, 30, 25, 30>>
    /\ Len(args.out) = 1
    /\ args.out[1].answer = "B"

\* C23: when the filled ratios of the True and the False cell differ by
\* 0.05 or more, exactly 0.05 included, the option is True exactly when the
\* True cell is the more filled; otherwise it is True exactly when the True
\* cell has the lower mean.
C23_FilledRatioDecidesFromFiveHundredths ==
    (sa_pc = "done" /\ args.fn = "compare") =>
        LET t == args.input.t
            f == args.input.f
        IN  args.out = IF Abs(t.filled_ratio - f.filled_ratio) >= 5
                       THEN t.filled_ratio > f.filled_ratio
                       ELSE t.mean < f.mean

\* C24: the most filled cell of a Part III column is selected exactly when
\* it is STRONG (filled >= 0.37, or filled >= 0.35 and mean < 145) or
\* MARGINAL (filled >= 0.34, gap to the second most filled >= 0.05, mean
\* < 165); otherwise the column gives no symbol.
C24_SelectedIffStrongOrMarginal ==
    (sa_pc = "done" /\ args.fn = "select") =>
        LET best == args.input[4]
            gap == best.filled_ratio - args.input[5].filled_ratio
            strong == \/ best.filled_ratio >= 37
                      \/ best.filled_ratio >= 35 /\ best.mean < 145
            marginal == best.filled_ratio >= 34 /\ gap >= 5 /\ best.mean < 165
        IN  args.out = IF strong \/ marginal THEN "1" ELSE ""

C26_OneDigitPerColumn ==
    (ec.returned /\ ec.img.decoded /\ ec.img.contour /\ ~ec.img.raises) =>
        LET filled(c) == {r \in 0..(ExamRows - 1) : IsFilled(ec.img.grid, ec.img.grid[c][r + 1])}
            digit(c) == IF filled(c) = {} THEN ""
                        ELSE ToString(CHOOSE r \in filled(c) : \A x \in filled(c) : r <= x)
        IN  ec.exam_code = digit(1) \o digit(2) \o digit(3) \o digit(4)

\* C22: the Part I region at index r is the r-th block from the top of the
\* sheet, so that the block at position r carries the questions 10r + 1 to
\* 10r + 10, whatever the areas of the detected regions.
C22_RegionIndexIsPositionFromTop ==
    (sa_pc = "done" /\ args.fn = "detect_regions") =>
        \A i \in 1..Len(args.out) :
            /\ args.out[i].top = i - 1
            /\ args.out[i].question_offset = 10 * args.out[i].top

\* C27: when a part finds fewer regions than it expects (fewer than 4 for
\* Part I and Part II, fewer than 8 for Part III) the extraction still
\* returns, every region found has been processed, and each question of a
\* missing region has an entry in the returned list.
C27_MissingRegionsGiveEmptyAnswers ==
    /\ (p1.returned /\ p1.img.decoded /\ p1.img.found < 4) =>
           /\ p1.region_idx = p1.img.found
           /\ \A q \in (10 * p1.img.found + 1)..40 :
                 \E i \in 1..Len(p1.all_answers) : p1.all_answers[i].question = q
    /\ (p2.returned /\ p2.img.decoded /\ p2.img.found < 4) =>
           /\ p2.region_idx = p2.img.found
           /\ \A q \in (2 * p2.img.found + 1)..8 :
                 \E i \in 1..Len(p2.all_answers) : p2.all_answers[i].question = q
    /\ (p3.returned /\ p3.img.decoded /\ p3.img.found < 8) =>
           /\ p3.region_idx = p3.img.found
           /\ \A q \in (p3.img.found + 1)..8 :
                 \E i \in 1..Len(p3.all_answers) : p3.all_answers[i].question = q

\* C30: within one extraction, once the image of a part has been loaded and
\* decoded (the part is in its region loop or about to return), no step of
\* the pipeline reads or writes a file: the files on disk stay as they are.
C30_NoFileIOAfterLoad ==
    [][(pc \in {"p1", "p2", "p3"}) => (disk' = disk)]_vars

(***************************************************************************)
(* Claims about the grids.                                                 *)
(***************************************************************************)
\* C28: every grid built by create_balanced_grid, create_balanced_grid_p2 and
\* create_balanced_grid_p3 starts at 0 and ends at the tile's size: the first
\* h_line is 0 and the last is the tile height, the first v_line is 0 and the
\* last is the tile width, for every tile width and height.
C28_GridSpansTheTile ==
    (/\ sa_pc = "done"
     /\ args.fn \in {"create_balanced_grid", "create_balanced_grid_p2",
                     "create_balanced_grid_p3"}) =>
        /\ args.out.h_lines[1] = 0
        /\ args.out.h_lines[Len(args.out.h_lines)] = args.input.height
        /\ args.out.v_lines[1] = 0
        /\ args.out.v_lines[Len(args.out.v_lines)] = args.input.width

\* C29: in every grid built by the three builders h_lines is strictly
\* increasing and v_lines is strictly increasing, for every positive tile
\* width and height.
C29_GridLinesStrictlyIncrease ==
    (/\ sa_pc = "done"
     /\ args.fn \in {"create_balanced_grid", "create_balanced_grid_p2",
                     "create_balanced_grid_p3"}) =>
        /\ \A i \in 1..(Len(args.out.h_lines) - 1) :
              args.out.h_lines[i] < args.out.h_lines[i + 1]
        /\ \A i \in 1..(Len(args.out.v_lines) - 1) :
              args.out.v_lines[i] < args.out.v_lines[i + 1]

====
